---------------------------- MODULE Spec2Model ----------------------------
(***************************************************************************)
(* A model of the xray-sdk repository:                                     *)
(*   - the SDK's event queue and batcher (packages/sdk/src/client.ts),     *)
(*   - the step accumulator (packages/sdk/src/index.ts) with the capture   *)
(*     policy engine (packages/sdk/src/capture.ts),                        *)
(*   - the ingestion routes of the API (packages/api/src/routes.ts) over   *)
(*     the tables of the migration (unnamed/part_000).                     *)
(* Each part has its own specifications (SpecClient, SpecDrain and         *)
(* SpecPoison; SpecStep, SpecFinal and its variants; SpecServer, SpecStore *)
(* and SpecConcurrent) over the shared variables; SpecDelivery and SpecRun *)
(* join the client with the API.                                           *)
(***************************************************************************)
EXTENDS Integers, Sequences, FiniteSets, TLC

(***************************************************************************)
(* Bounds of the model.                                                    *)
(***************************************************************************)
\* cfg.maxQueue (client.ts:17, default 2000), scaled down
MaxQueue == 3
\* the batch size, the literal 50 of client.ts:31, scaled down
BatchSize == 2
\* number of events the host enqueues in a behaviour
MaxEvents == 4
\* number of flush() invocations that may be suspended at an await at once
MaxRounds == 2
\* number of failed requests in a behaviour
MaxFailures == 2
\* number of candidates / of outcomes a step accumulates
MaxCands == 2
MaxOuts == 2
\* the readings of the clock are 1..MaxTime
MaxTime == 2
\* number of POST /v1/steps requests the API accepts in a behaviour
MaxRequests == 2
\* largest number of candidates of a sampled step
MaxSample == 3
\* number of step events delivered one after the other
MaxDeliveries == 3

\* an optional value: None is JavaScript's undefined, Some(v) the value v
None == <<>>
Some(v) == <<v>>

\* a ?? b
Nullish(a, b) == IF a = None THEN b ELSE a[1]

\* the object literal {} where the model does not look inside the object
EmptyObject == "{}"

Min(a, b) == IF a <= b THEN a ELSE b
Max(a, b) == IF a >= b THEN a ELSE b

VARIABLES
    \* ---- XRayClient (client.ts) ----
    q,             \* this.q: the queued events, oldest first
    timerOn,       \* this.timer is set (setInterval armed)
    rounds,        \* the flush() invocations suspended at `await request`
    \* ---- observation of the client ----
    nextEv,        \* identity of the next event object to be enqueued
    delivered,     \* events whose request resolved, in order of resolution
    evicted,       \* events spliced off by enqueue on overflow
    onErrorCalls,  \* invocations of cfg.onError
    thrownToHost,  \* rejections of the promise returned by XRay.flush()
    failures       \* requests that threw

clientVars == <<q, timerOn, rounds, nextEv, delivered, evicted,
                onErrorCalls, thrownToHost, failures>>

VARIABLES
    \* ---- one XRayStep instance (index.ts) ----
    stInit,        \* this.init: the StepInit given to the constructor
    stCands,       \* this.candidatesIn
    stOuts,        \* this.outcomes
    stReasoning,   \* this.reasoning
    stOutput,      \* this.output
    stStatus,      \* this.status
    stEndedAt      \* this.endedAt

stepVars == <<stInit, stCands, stOuts, stReasoning, stOutput, stStatus, stEndedAt>>

VARIABLES
    \* ---- the API's database (routes.ts over the tables of part_000) ----
    db,            \* the committed rows: [runs, steps, metrics, cands, outs]
    txs,           \* per request slot: the POST /v1/steps transaction in progress
    \* ---- observation of the API ----
    lastReq,       \* the POST /v1/steps request answered last and how it ended
    accepted       \* number of POST /v1/steps requests accepted so far

serverVars == <<db, txs, lastReq, accepted>>

vars == <<clientVars, stepVars, serverVars>>

-----------------------------------------------------------------------------
(***************************************************************************)
(* XRayClient                                                              *)
(***************************************************************************)

\* the path of an event the host enqueues; the client passes it to request()
\* and does not look at it, so one path stands for both routes
Paths == {"/v1/steps"}

\* a bug to compare with: on overflow the newest events are dropped
EnqueueQKeepOldest(qq, ev) ==
    LET pushed == Append(qq, ev)
    IN  SubSeq(pushed, 1, Min(Len(pushed), MaxQueue))

\* enqueue(path, body): push, then splice off the oldest beyond maxQueue
EnqueueQ(qq, ev) ==
    LET pushed == Append(qq, ev)
        excess == Len(pushed) - MaxQueue
    IN  IF Len(pushed) > MaxQueue
        THEN SubSeq(pushed, excess + 1, Len(pushed))
        ELSE pushed

\* the events enqueue splices off
EnqueueDropped(qq, ev) ==
    LET pushed == Append(qq, ev)
        excess == Len(pushed) - MaxQueue
    IN  IF Len(pushed) > MaxQueue
        THEN {pushed[i] : i \in 1..excess}
        ELSE {}

\* the host enqueues one event (any of the SDK's lifecycle calls)
ClientEnqueue(path, body) ==
    /\ nextEv <= MaxEvents
    /\ LET ev == [id |-> nextEv, path |-> path, body |-> body]
       IN  /\ q' = EnqueueQ(q, ev)
           /\ evicted' = evicted \cup {e.id : e \in EnqueueDropped(q, ev)}
    /\ nextEv' = nextEv + 1

HostEnqueue ==
    /\ \E path \in Paths : ClientEnqueue(path, None)
    /\ UNCHANGED <<timerOn, rounds, delivered, onErrorCalls, thrownToHost, failures>>
    /\ UNCHANGED <<stepVars, serverVars>>

\* a bug to compare with: this.q.unshift(...batch), the whole batch is put
\* back, the events already sent included
RequeuedWholeBatch(r) == r.batch

\* what a failing request puts back: only the event whose request threw
Requeued(r) == <<r.batch[r.pos]>>

\* flush(), up to its first await: return on an empty queue, else splice the
\* batch off the front and issue the request for its first event
FlushStart(trigger) ==
    \/ /\ Len(q) = 0
       /\ UNCHANGED vars
    \/ /\ Len(q) > 0
       /\ Cardinality(rounds) < MaxRounds
       /\ LET n == Min(Len(q), BatchSize)
          IN  /\ rounds' = rounds \cup
                     {[trigger |-> trigger, batch |-> SubSeq(q, 1, n), pos |-> 1]}
              /\ q' = SubSeq(q, n + 1, Len(q))
       /\ UNCHANGED <<timerOn, nextEv, delivered, evicted,
                      onErrorCalls, thrownToHost, failures>>
       /\ UNCHANGED <<stepVars, serverVars>>

\* a bug to compare with: shutdown() does not clear the interval
TimerFlushAfterShutdown == FlushStart("timer")

\* the setInterval callback: () => this.flush().catch(this.cfg.onError)
TimerFlush ==
    /\ timerOn
    /\ FlushStart("timer")

\* XRay.flush(): await this.client.flush()
ExplicitFlush == FlushStart("explicit")

\* what flush() does when the awaited request resolves, whatever the status
\* of the response (the response is not looked at): the loop goes on to the
\* next event of the batch, or the round ends
RequestResolves(r) ==
    /\ r \in rounds
    /\ delivered' = Append(delivered, r.batch[r.pos].id)
    /\ rounds' = IF r.pos < Len(r.batch)
                 THEN (rounds \ {r}) \cup {[r EXCEPT !.pos = r.pos + 1]}
                 ELSE rounds \ {r}
    /\ UNCHANGED <<q, timerOn, nextEv, evicted, onErrorCalls, thrownToHost, failures>>

\* the awaited request resolves
RequestOk(r) ==
    /\ RequestResolves(r)
    /\ UNCHANGED <<stepVars, serverVars>>

\* the awaited request throws (timeout, connection error): unshift the event
\* and rethrow; the timer's round hands the error to onError, an explicit
\* round rejects the promise the host awaits
RequestThrows(r) ==
    /\ r \in rounds
    /\ failures < MaxFailures
    /\ q' = Requeued(r) \o q
    /\ rounds' = rounds \ {r}
    /\ failures' = failures + 1
    /\ IF r.trigger = "timer"
       THEN onErrorCalls' = onErrorCalls + 1 /\ UNCHANGED thrownToHost
       ELSE thrownToHost' = thrownToHost + 1 /\ UNCHANGED onErrorCalls
    /\ UNCHANGED <<timerOn, nextEv, delivered, evicted>>

\* the request throws and nothing else happens
RequestFail(r) ==
    /\ RequestThrows(r)
    /\ UNCHANGED <<stepVars, serverVars>>

\* shutdown(): clearInterval
Shutdown ==
    /\ timerOn' = FALSE
    /\ UNCHANGED <<q, rounds, nextEv, delivered, evicted,
                   onErrorCalls, thrownToHost, failures>>
    /\ UNCHANGED <<stepVars, serverVars>>

-----------------------------------------------------------------------------
(***************************************************************************)
(* Capture policy engine (capture.ts)                                      *)
(***************************************************************************)

DefaultThreshold == 200
DefaultTopK == 50
DefaultSampleN == 50
\* the sentinel rank of a candidate without rank: 1e9
MissingRank == 1000000000

\* defaultPolicy()
DefaultPolicy ==
    [mode |-> Some("THRESHOLD"), threshold |-> Some(DefaultThreshold),
     topK |-> Some(DefaultTopK), sampleN |-> Some(DefaultSampleN),
     includeOutcomes |-> Some(TRUE), includeRejected |-> Some(TRUE)]

PolicyFields == {"mode", "threshold", "topK", "sampleN", "includeOutcomes", "includeRejected"}

\* A policy object gives each key None when it lacks the key, else Some(x)
\* with x the key's optional value.  {} lacks every key.
EmptyPolicyObject == [f \in PolicyFields |-> None]

\* { ...defaultPolicy(), ...(policy ?? {}) }: a key the policy has overrides
\* the default, also when its value is undefined
EffectivePolicy(policy) ==
    LET given == Nullish(policy, EmptyPolicyObject)
    IN  [f \in PolicyFields |->
            IF given[f] # None THEN given[f][1] ELSE DefaultPolicy[f]]


\* the names every object literal inherits from Object.prototype as functions
\* ("__proto__" is an accessor and is not among them)
ObjectPrototypeKeys ==
    {"constructor", "toString", "toLocaleString", "valueOf", "hasOwnProperty",
     "isPrototypeOf", "propertyIsEnumerable"}

\* String(f) of the inherited function under key k
InheritedToString(k) ==
    "function " \o (IF k = "constructor" THEN "Object" ELSE k) \o "() { [native code] }"

\* histogram[k] on the object literal {} with own properties h: the own
\* property, else the property inherited from Object.prototype, else undefined
\* A value of the histogram is the number n when s = "", else the string s.
HistogramGet(h, k) ==
    IF k \in DOMAIN h THEN Some(h[k])
    ELSE IF k \in ObjectPrototypeKeys THEN Some([n |-> 0, s |-> InheritedToString(k)])
    ELSE None

\* (histogram[k] ?? 0) + 1: addition on a number, concatenation otherwise
HistogramBump(h, k) ==
    LET cur == Nullish(HistogramGet(h, k), [n |-> 0, s |-> ""])
    IN  IF cur.s = "" THEN [n |-> cur.n + 1, s |-> ""]
        ELSE [n |-> 0, s |-> cur.s \o "1"]

\* histogram[k] = v
HistogramSet(h, k, v) ==
    [x \in DOMAIN h \cup {k} |-> IF x = k THEN v ELSE h[x]]

\* the loop over outcomes building the histogram of rejection reasons
RECURSIVE Histogram(_, _)
Histogram(outs, h) ==
    IF outs = <<>> THEN h
    ELSE LET o == Head(outs)
             k == Nullish(o.reasonCode, "UNKNOWN")
         IN  Histogram(Tail(outs),
                       IF o.outcome = "rejected"
                       THEN HistogramSet(h, k, HistogramBump(h, k))
                       ELSE h)

EmptyHistogram == [x \in {} |-> [n |-> 0, s |-> ""]]

\* a bug to compare with: n < threshold
ResolveModeBelowThreshold(p, n) ==
    IF p.mode = Some("THRESHOLD")
    THEN (IF n < Nullish(p.threshold, DefaultThreshold) THEN Some("FULL") ELSE Some("TOP_K"))
    ELSE p.mode

\* mode resolution
ResolveMode(p, n) ==
    IF p.mode = Some("THRESHOLD")
    THEN (IF n <= Nullish(p.threshold, DefaultThreshold) THEN Some("FULL") ELSE Some("TOP_K"))
    ELSE p.mode

\* the comparator's key: a.rank ?? 1e9
RankKey(c) == Nullish(c.rank, MissingRank)

\* Array.prototype.sort with (a, b) => key(a) - key(b): stable, ascending
RECURSIVE InsertByRank(_, _)
InsertByRank(sorted, c) ==
    IF sorted = <<>> THEN <<c>>
    ELSE IF RankKey(c) < RankKey(Head(sorted))
         THEN <<c>> \o sorted
         ELSE <<Head(sorted)>> \o InsertByRank(Tail(sorted), c)

RECURSIVE SortByRank(_)
SortByRank(cs) ==
    IF cs = <<>> THEN <<>>
    ELSE InsertByRank(SortByRank(SubSeq(cs, 1, Len(cs) - 1)), cs[Len(cs)])

\* slice(0, k)
Slice(s, k) == SubSeq(s, 1, Min(k, Len(s)))

TopK(cs, p) == Slice(SortByRank(cs), Max(1, Nullish(p.topK, DefaultTopK)))

\* a bug to compare with: j = Math.floor(Math.random() * i)
DrawsBelow(i) == 0..(i - 1)

\* the values of j = Math.floor(Math.random() * (i + 1)), each as likely as
\* the others
Draws(i) == 0..i

\* the outcomes of the random draws of one shuffle of n entries: the j drawn
\* at each i = n-1, .., 1
DrawVectors(n) == {d \in [1..(n - 1) -> 0..(n - 1)] : \A i \in 1..(n - 1) : d[i] \in Draws(i)}

\* [arr[i], arr[j]] = [arr[j], arr[i]], for 0-based i and j
Swap(arr, i, j) ==
    [x \in 1..Len(arr) |-> IF x = i + 1 THEN arr[j + 1]
                           ELSE IF x = j + 1 THEN arr[i + 1] ELSE arr[x]]

\* the loop for (i = ..; i > 0; i--) from i on, with draws d
RECURSIVE ShuffleFrom(_, _, _)
ShuffleFrom(arr, d, i) ==
    IF i > 0 THEN ShuffleFrom(Swap(arr, i, d[i]), d, i - 1) ELSE arr

\* the copy after the shuffle with draws d
ShuffleBy(cs, d) == ShuffleFrom(cs, d, Len(cs) - 1)

\* the arrays the in-place shuffle can leave
Shuffles(cs) == {ShuffleBy(cs, d) : d \in DrawVectors(Len(cs))}

SampleResults(cs, p) ==
    LET k == Min(Max(1, Nullish(p.sampleN, DefaultSampleN)), Len(cs))
    IN  {Slice(a, k) : a \in Shuffles(cs)}

\* a bug to compare with: the last branch keeps the candidates
CapturedCandidateChoicesKeepingAll(cs, p) ==
    LET mode == ResolveMode(p, Len(cs))
    IN  IF mode = Some("TOP_K") THEN {TopK(cs, p)}
        ELSE IF mode = Some("SAMPLE") THEN SampleResults(cs, p)
        ELSE {cs}

\* the candidates applyCapturePolicy can capture, one per outcome of the
\* random draws
CapturedCandidateChoices(cs, p) ==
    LET mode == ResolveMode(p, Len(cs))
    IN  IF mode = Some("FULL") THEN {cs}
        ELSE IF mode = Some("TOP_K") THEN {TopK(cs, p)}
        ELSE IF mode = Some("SAMPLE") THEN SampleResults(cs, p)
        ELSE {<<>>}

\* a bug to compare with: candidatesIn.sort(...), without the copy
CandidatesInSortedInPlace(cs, p) ==
    IF ResolveMode(p, Len(cs)) = Some("TOP_K") THEN SortByRank(cs) ELSE cs

\* what the array candidatesIn holds when applyCapturePolicy returns: sort
\* and the shuffle's swaps act on the copy [...candidatesIn], nothing assigns
\* to an element of candidatesIn
CandidatesInAfter(cs, p) == cs

\* `${candidateType}:${candidateId}`
CaptureKey(x) == x.candidateType \o ":" \o x.candidateId

\* a bug to compare with: the check for "selected" comes after the check that
\* the candidate was captured
KeepsOutcomeIfCaptured(o, capturedKey, p) ==
    IF p.includeOutcomes = Some(FALSE) /\ o.outcome # "selected" THEN FALSE
    ELSE IF CaptureKey(o) \notin capturedKey THEN FALSE
    ELSE IF o.outcome = "rejected" /\ p.includeRejected = Some(FALSE) THEN FALSE
    ELSE TRUE

\* whether the outcome loop pushes o
KeepsOutcome(o, capturedKey, p) ==
    IF o.outcome = "selected" THEN TRUE
    ELSE IF p.includeOutcomes = Some(FALSE) THEN FALSE
    ELSE IF CaptureKey(o) \notin capturedKey THEN FALSE
    ELSE IF o.outcome = "rejected" /\ p.includeRejected = Some(FALSE) THEN FALSE
    ELSE TRUE

RECURSIVE FilterOutcomes(_, _, _)
FilterOutcomes(outs, capturedKey, p) ==
    IF outs = <<>> THEN <<>>
    ELSE (IF KeepsOutcome(Head(outs), capturedKey, p) THEN <<Head(outs)>> ELSE <<>>)
         \o FilterOutcomes(Tail(outs), capturedKey, p)

\* applyCapturePolicy(candidatesIn, outcomes, policy): the set of results it
\* can return (one, except in mode SAMPLE).  sameArray: capturedCandidates is
\* the candidatesIn array itself, not a copy
ApplyCapturePolicy(cs, outs, policy) ==
    LET p == EffectivePolicy(policy)
        histogram == Histogram(outs, EmptyHistogram)
    IN  {[capturedCandidates |-> cc,
          capturedOutcomes |->
              FilterOutcomes(outs, {CaptureKey(cc[i]) : i \in 1..Len(cc)}, p),
          histogram |-> histogram,
          sameArray |-> (ResolveMode(p, Len(cs)) = Some("FULL")),
          candidatesInAfter |-> CandidatesInAfter(cs, p)]
         : cc \in CapturedCandidateChoices(cs, p)}

-----------------------------------------------------------------------------
(***************************************************************************)
(* XRayStep (index.ts)                                                     *)
(***************************************************************************)

Candidate(id, type, rank) ==
    [candidateId |-> id, candidateType |-> type, rank |-> rank,
     score |-> None, payload |-> None, meta |-> None]

Outcome(id, type, kind, reasonCode) ==
    [candidateId |-> id, candidateType |-> type, outcome |-> kind,
     reasonCode |-> reasonCode, reasonDetail |-> None, reasoningText |-> None]

\* sequences over S of length lo..hi
SeqsOf(S, lo, hi) == UNION {[1..n -> S] : n \in lo..hi}

\* normalizeErr(e), for e undefined or a string
NormalizeErr(e) ==
    IF e = None THEN [message |-> "Unknown error"] ELSE [message |-> e[1]]

\* A reasoning object has the optional keys note and error.
EmptyReasoning == [note |-> None, error |-> None]

\* { ...(this.reasoning ?? {}), error: normalizeErr(error) }
WithError(reasoning, e) ==
    [Nullish(reasoning, EmptyReasoning) EXCEPT !.error = Some(NormalizeErr(e))]

CountKind(outs, kind) == Cardinality({i \in 1..Len(outs) : outs[i].outcome = kind})

\* the division without the test for candidatesIn = 0
RejectionRateUnguarded(rejectedCount, candidatesIn) ==
    [num |-> rejectedCount, den |-> Max(1, candidatesIn)]

\* rejectedCount / candidatesIn as the fraction num/den; 0 when candidatesIn = 0
RejectionRate(rejectedCount, candidatesIn) ==
    IF candidatesIn > 0
    THEN [num |-> rejectedCount, den |-> candidatesIn]
    ELSE [num |-> 0, den |-> 1]

\* the body ingestRunning() enqueues
RunningBody(init) ==
    [stepId |-> init.stepId, runId |-> init.runId, name |-> init.name,
     type |-> init.type, status |-> "running", startedAt |-> init.startedAt,
     endedAt |-> None, durationMs |-> None,
     input |-> init.input, output |-> None, reasoning |-> None,
     meta |-> Nullish(init.meta, EmptyObject),
     capturePolicy |-> Nullish(init.capturePolicy, EmptyPolicyObject),
     metrics |-> [candidatesIn |-> 0, candidatesCaptured |-> 0, acceptedCount |-> 0,
                  rejectedCount |-> 0, selectedCount |-> 0,
                  rejectionRate |-> [num |-> 0, den |-> 1]],
     candidates |-> None, outcomes |-> None, rejectionHistogram |-> None,
     candidatesSameArray |-> FALSE]

\* the body ingestFinal() enqueues when applyCapturePolicy returns cap.
\* candidatesSameArray: the body's candidates is the array this.candidatesIn
FinalBody(init, cands, outs, status, endedAt, output, reasoning, cap) ==
    [stepId |-> init.stepId, runId |-> init.runId, name |-> init.name,
     type |-> init.type, status |-> status, startedAt |-> init.startedAt,
     endedAt |-> endedAt, durationMs |-> Some(endedAt[1] - init.startedAt),
     input |-> init.input, output |-> output, reasoning |-> reasoning,
     meta |-> Nullish(init.meta, EmptyObject),
     capturePolicy |-> Nullish(init.capturePolicy, EmptyPolicyObject),
     metrics |-> [candidatesIn |-> Len(cands),
                  candidatesCaptured |-> Len(cap.capturedCandidates),
                  acceptedCount |-> CountKind(outs, "accepted"),
                  rejectedCount |-> CountKind(outs, "rejected"),
                  selectedCount |-> CountKind(outs, "selected"),
                  rejectionRate |-> RejectionRate(CountKind(outs, "rejected"), Len(cands))],
     candidates |-> Some(cap.capturedCandidates),
     outcomes |-> Some(cap.capturedOutcomes),
     rejectionHistogram |-> Some(cap.histogram),
     candidatesSameArray |-> cap.sameArray]

\* ingestRunning()
IngestRunning ==
    /\ ClientEnqueue("/v1/steps", RunningBody(stInit))
    /\ UNCHANGED <<timerOn, rounds, delivered, onErrorCalls, thrownToHost, failures>>
    /\ UNCHANGED <<stepVars, serverVars>>

\* this.candidatesIn.push(...cands) seen through a queued event whose
\* candidates is that same array.  An event is serialized (JSON.stringify)
\* when its request is issued: the push shows in the events of the queue and
\* in those of a batch that the loop of flush() has not reached
PushedThrough(ev, cands) ==
    IF ev.path = "/v1/steps" /\ ev.body.candidatesSameArray
    THEN [ev EXCEPT !.body.candidates = Some(cands)]
    ELSE ev

\* addCandidates(cands)
AddCandidates(batch) ==
    /\ Len(stCands) + Len(batch) <= MaxCands
    /\ stCands' = stCands \o batch
    /\ q' = [i \in 1..Len(q) |-> PushedThrough(q[i], stCands \o batch)]
    /\ rounds' = {[r EXCEPT !.batch = [i \in 1..Len(r.batch) |->
                                          IF i > r.pos
                                          THEN PushedThrough(r.batch[i], stCands \o batch)
                                          ELSE r.batch[i]]] : r \in rounds}
    /\ UNCHANGED <<stInit, stOuts, stReasoning, stOutput, stStatus, stEndedAt>>
    /\ UNCHANGED <<timerOn, nextEv, delivered, evicted,
                   onErrorCalls, thrownToHost, failures>>
    /\ UNCHANGED serverVars

\* reject(...), accept(...), select(...): push one outcome
RecordOutcome(o) ==
    /\ Len(stOuts) < MaxOuts
    /\ stOuts' = Append(stOuts, o)
    /\ UNCHANGED <<stInit, stCands, stReasoning, stOutput, stStatus, stEndedAt>>
    /\ UNCHANGED <<clientVars, serverVars>>

\* setReasoning(reasoning)
SetReasoning(r) ==
    /\ stReasoning' = r
    /\ UNCHANGED <<stInit, stCands, stOuts, stOutput, stStatus, stEndedAt>>
    /\ UNCHANGED <<clientVars, serverVars>>

\* setOutput(output)
SetOutput(o) ==
    /\ stOutput' = o
    /\ UNCHANGED <<stInit, stCands, stOuts, stReasoning, stStatus, stEndedAt>>
    /\ UNCHANGED <<clientVars, serverVars>>

\* the clock does not run backwards
ClockReadings == {t \in 1..MaxTime : t >= Nullish(stEndedAt, stInit.startedAt)}

\* ingestFinal(), after the caller has set status, endedAt and reasoning
IngestFinal(status, endedAt, reasoning) ==
    /\ \E cap \in ApplyCapturePolicy(stCands, stOuts, stInit.capturePolicy) :
           /\ stCands' = cap.candidatesInAfter
           /\ ClientEnqueue("/v1/steps",
                            FinalBody(stInit, cap.candidatesInAfter, stOuts, status,
                                      endedAt, stOutput, reasoning, cap))
    /\ UNCHANGED <<timerOn, rounds, delivered, onErrorCalls, thrownToHost, failures>>
    /\ UNCHANGED serverVars

\* endSuccess()
EndSuccess ==
    \E t \in ClockReadings :
        /\ stStatus' = "success"
        /\ stEndedAt' = Some(t)
        /\ IngestFinal("success", Some(t), stReasoning)
        /\ UNCHANGED <<stInit, stOuts, stReasoning, stOutput>>

\* endError(error)
EndError(error) ==
    \E t \in ClockReadings :
        /\ stStatus' = "error"
        /\ stEndedAt' = Some(t)
        /\ stReasoning' = Some(WithError(stReasoning, error))
        /\ IngestFinal("error", Some(t), Some(WithError(stReasoning, error)))
        /\ UNCHANGED <<stInit, stOuts, stOutput>>

-----------------------------------------------------------------------------
(***************************************************************************)
(* Ingestion routes (routes.ts).  A table is the set of its rows; SQL NULL *)
(* is None.  The generated columns (StepCandidate.id, CandidateOutcome.id, *)
(* createdAt) are written once at insert and are left out.                 *)
(***************************************************************************)

\* x ?? undefined in an update: Prisma leaves the column as it is
KeepIfMissing(old, new) == IF new = None THEN old ELSE new

\* prisma.<model>.upsert({where, create, update}) with matching the rows of
\* the table that satisfy where and updated[row] what update makes of one:
\* update the row that matches, else insert
Upsert(table, matching, created, updated) ==
    IF matching # {}
    THEN (table \ matching) \cup {updated[row] : row \in matching}
    ELSE table \cup {created}

\* a bug to compare with: the update branch writes what the create branch
\* writes
UpsertRunOverwriting(runs, r) ==
    {row \in runs : row.id # r.runId}
    \cup {[id |-> r.runId, traceId |-> r.traceId, pipeline |-> r.pipeline,
           pipelineVersion |-> r.pipelineVersion, status |-> r.status,
           startedAt |-> r.startedAt, endedAt |-> r.endedAt,
           durationMs |-> r.durationMs, input |-> r.input, output |-> r.output,
           error |-> r.error, tags |-> Nullish(r.tags, EmptyObject),
           meta |-> Nullish(r.meta, EmptyObject)]}

\* POST /v1/runs: prisma.run.upsert
UpsertRun(runs, r) ==
    LET matching == {row \in runs : row.id = r.runId}
        created ==
            [id |-> r.runId, traceId |-> r.traceId, pipeline |-> r.pipeline,
             pipelineVersion |-> r.pipelineVersion, status |-> r.status,
             startedAt |-> r.startedAt, endedAt |-> r.endedAt,
             durationMs |-> r.durationMs, input |-> r.input, output |-> r.output,
             error |-> r.error, tags |-> Nullish(r.tags, EmptyObject),
             meta |-> Nullish(r.meta, EmptyObject)]
        updated == [row \in matching |->
            [row EXCEPT !.status = r.status,
                        !.endedAt = KeepIfMissing(@, r.endedAt),
                        !.durationMs = KeepIfMissing(@, r.durationMs),
                        !.output = KeepIfMissing(@, r.output),
                        !.error = KeepIfMissing(@, r.error),
                        !.tags = Nullish(r.tags, @),
                        !.meta = Nullish(r.meta, @)]]
    IN  Upsert(runs, matching, created, updated)

\* tx.step.upsert
UpsertStep(steps, s) ==
    LET matching == {row \in steps : row.id = s.stepId}
        created ==
            [id |-> s.stepId, runId |-> s.runId, parentStepId |-> s.parentStepId,
             name |-> s.name, type |-> s.type, status |-> s.status,
             startedAt |-> s.startedAt, endedAt |-> s.endedAt,
             durationMs |-> s.durationMs, input |-> s.input, output |-> s.output,
             reasoning |-> s.reasoning, meta |-> Nullish(s.meta, EmptyObject),
             capturePolicy |-> Nullish(s.capturePolicy, EmptyPolicyObject)]
        updated == [row \in matching |->
            [row EXCEPT !.parentStepId = KeepIfMissing(@, s.parentStepId),
                        !.status = s.status,
                        !.endedAt = KeepIfMissing(@, s.endedAt),
                        !.durationMs = KeepIfMissing(@, s.durationMs),
                        !.input = KeepIfMissing(@, s.input),
                        !.output = KeepIfMissing(@, s.output),
                        !.reasoning = KeepIfMissing(@, s.reasoning),
                        !.meta = Nullish(s.meta, @),
                        !.capturePolicy = Nullish(s.capturePolicy, @)]]
    IN  Upsert(steps, matching, created, updated)

\* the row tx.stepMetrics.upsert writes, in its create and in its update branch
MetricsRow(s) ==
    [stepId |-> s.stepId,
     candidatesIn |-> s.metrics.candidatesIn,
     candidatesCaptured |-> s.metrics.candidatesCaptured,
     acceptedCount |-> s.metrics.acceptedCount,
     rejectedCount |-> s.metrics.rejectedCount,
     selectedCount |-> s.metrics.selectedCount,
     rejectionRate |-> s.metrics.rejectionRate,
     meta |-> [rejectionHistogram |-> Nullish(s.rejectionHistogram, EmptyHistogram)]]

\* a bug to compare with: the update branch adds the counts to the stored ones
MetricsUpdateAdding(row, s) ==
    [MetricsRow(s) EXCEPT !.candidatesIn = row.candidatesIn + @,
                          !.rejectedCount = row.rejectedCount + @]

\* the update branch of tx.stepMetrics.upsert
MetricsUpdate(row, s) == MetricsRow(s)

\* tx.stepMetrics.upsert
UpsertMetrics(metrics, s) ==
    LET matching == {row \in metrics : row.stepId = s.stepId}
        updated == [row \in matching |-> MetricsUpdate(row, s)]
    IN  Upsert(metrics, matching, MetricsRow(s), updated)

\* a bug to compare with: a plain insert into a table without the unique
\* index
InsertCandidate(cands, s, c) ==
    cands \cup {[stepId |-> s.stepId, candidateId |-> c.candidateId,
                 candidateType |-> c.candidateType, rank |-> c.rank, score |-> c.score,
                 payload |-> c.payload, meta |-> Nullish(c.meta, EmptyObject)]}

\* tx.stepCandidate.upsert for one candidate c of the event
UpsertCandidate(cands, s, c) ==
    LET matching == {row \in cands : /\ row.stepId = s.stepId
                                      /\ row.candidateId = c.candidateId
                                      /\ row.candidateType = c.candidateType}
        created ==
            [stepId |-> s.stepId, candidateId |-> c.candidateId,
             candidateType |-> c.candidateType, rank |-> c.rank, score |-> c.score,
             payload |-> c.payload, meta |-> Nullish(c.meta, EmptyObject)]
        updated == [row \in matching |->
            [row EXCEPT !.rank = KeepIfMissing(@, c.rank),
                        !.score = KeepIfMissing(@, c.score),
                        !.payload = KeepIfMissing(@, c.payload),
                        !.meta = Nullish(c.meta, @)]]
    IN  Upsert(cands, matching, created, updated)

\* tx.candidateOutcome.upsert for one outcome o of the event
UpsertOutcome(outs, s, o) ==
    LET matching == {row \in outs : /\ row.stepId = s.stepId
                                     /\ row.candidateId = o.candidateId
                                     /\ row.candidateType = o.candidateType
                                     /\ row.outcome = o.outcome}
        created ==
            [stepId |-> s.stepId, candidateId |-> o.candidateId,
             candidateType |-> o.candidateType, outcome |-> o.outcome,
             reasonCode |-> o.reasonCode, reasonDetail |-> o.reasonDetail,
             reasoningText |-> o.reasoningText]
        updated == [row \in matching |->
            [row EXCEPT !.reasonCode = KeepIfMissing(@, o.reasonCode),
                        !.reasonDetail = KeepIfMissing(@, o.reasonDetail),
                        !.reasoningText = KeepIfMissing(@, o.reasoningText)]]
    IN  Upsert(outs, matching, created, updated)

\* s.candidates / s.outcomes as the loops see them: nothing when missing
ListOf(x) == Nullish(x, <<>>)

\* the statements of the transaction of POST /v1/steps, in order
TxStatements(s) ==
    <<[op |-> "step"], [op |-> "metrics"]>>
    \o [i \in 1..Len(ListOf(s.candidates)) |-> [op |-> "cand", i |-> i]]
    \o [i \in 1..Len(ListOf(s.outcomes)) |-> [op |-> "out", i |-> i]]

\* Step_runId_fkey: inserting a step row needs its run row.
\* Step_parentStepId_fkey: writing a parentStepId needs the parent's row (or
\* the row itself, when a step names itself)
ViolatesForeignKey(d, st, s) ==
    /\ st.op = "step"
    /\ \/ /\ ~ \E row \in d.steps : row.id = s.stepId
          /\ ~ \E row \in d.runs : row.id = s.runId
       \/ /\ s.parentStepId # None
          /\ s.parentStepId[1] # s.stepId
          /\ ~ \E row \in d.steps : row.id = s.parentStepId[1]

StepTables == {"steps", "metrics", "cands", "outs"}

\* the step id a row of one of the step tables belongs to
StepIdOf(tbl, row) == IF tbl = "steps" THEN row.id ELSE row.stepId

\* d with the rows of step id sid replaced by those of w
WithRowsOf(d, w, sid) ==
    [tbl \in DOMAIN d |->
        IF tbl \in StepTables
        THEN {row \in d[tbl] : StepIdOf(tbl, row) # sid}
             \cup {row \in w[tbl] : StepIdOf(tbl, row) = sid}
        ELSE d[tbl]]

\* the tables after one statement of the transaction
Execute(d, st, s) ==
    CASE st.op = "step" -> [d EXCEPT !.steps = UpsertStep(@, s)]
      [] st.op = "metrics" -> [d EXCEPT !.metrics = UpsertMetrics(@, s)]
      [] st.op = "cand" -> [d EXCEPT !.cands = UpsertCandidate(@, s, s.candidates[1][st.i])]
      [] st.op = "out" -> [d EXCEPT !.outs = UpsertOutcome(@, s, s.outcomes[1][st.i])]

\* the tables after the first n statements
RECURSIVE ExecuteFirst(_, _, _)
ExecuteFirst(d, s, n) ==
    IF n = 0 THEN d
    ELSE Execute(ExecuteFirst(d, s, n - 1), TxStatements(s)[n], s)

\* the whole transaction, when no statement fails
IngestStep(d, s) == ExecuteFirst(d, s, Len(TxStatements(s)))

\* the tables after a POST /v1/steps request for s that nothing interrupts:
\* the transaction commits, or fails on the foreign key and rolls back
PostStep(d, s) ==
    IF ViolatesForeignKey(d, TxStatements(s)[1], s) THEN d ELSE IngestStep(d, s)

\* a bug to compare with: the statements run outside the transaction, what
\* was written before the failure stays
KeepsPartialWrites(d, t) == IF t.done > 0 THEN WithRowsOf(d, t.work, t.ev.stepId) ELSE d

\* what a transaction t that fails leaves of the committed tables d:
\* prisma.$transaction rolls back
AfterRollback(d, t) == d

NoTx == [active |-> FALSE]

AllReqs == {1, 2}

\* the request is parsed and valid, the transaction callback starts
BeginStepIngest(r, s) ==
    /\ ~ txs[r].active
    /\ accepted < MaxRequests
    /\ accepted' = accepted + 1
    /\ txs' = [txs EXCEPT ![r] = [active |-> TRUE, ev |-> s, done |-> 0,
                                  work |-> [tbl \in StepTables |-> {}]]]
    /\ UNCHANGED <<db, lastReq>>
    /\ UNCHANGED <<clientVars, stepVars>>

\* a bug to compare with: the step upsert does not wait for a concurrent
\* transaction that has written the same step row
NeverLocked(r, sid) == FALSE

\* the rows of step id sid are locked by a transaction other than r: it has
\* written the step row and has not ended
LockedByOther(r, sid) ==
    \E o \in AllReqs \ {r} : txs[o].active /\ txs[o].done > 0 /\ txs[o].ev.stepId = sid

\* the next statement of the transaction succeeds.  It sees the committed
\* rows and the transaction's own writes; the first one (the step upsert)
\* waits for the lock on the step's row
TxStatement(r) ==
    /\ txs[r].active
    /\ txs[r].done < Len(TxStatements(txs[r].ev))
    /\ txs[r].done = 0 => ~ LockedByOther(r, txs[r].ev.stepId)
    /\ LET t == txs[r]
           st == TxStatements(t.ev)[t.done + 1]
           seen == IF t.done = 0 THEN db ELSE WithRowsOf(db, t.work, t.ev.stepId)
       IN  /\ ~ ViolatesForeignKey(seen, st, t.ev)
           /\ txs' = [txs EXCEPT ![r].done = @ + 1,
                                 ![r].work = [tbl \in StepTables |->
                                                 Execute(seen, st, t.ev)[tbl]]]
    /\ UNCHANGED <<db, lastReq, accepted>>
    /\ UNCHANGED <<clientVars, stepVars>>

\* the next statement of the transaction fails (a constraint, the
\* connection, the transaction's timeout): the callback throws
TxFailure(r) ==
    /\ txs[r].active
    /\ txs[r].done < Len(TxStatements(txs[r].ev))
    /\ db' = AfterRollback(db, txs[r])
    /\ lastReq' = [ev |-> txs[r].ev, outcome |-> "failed", done |-> txs[r].done,
                   repeat |-> FALSE]
    /\ txs' = [txs EXCEPT ![r] = NoTx]
    /\ UNCHANGED accepted
    /\ UNCHANGED <<clientVars, stepVars>>

\* the callback returns: commit, then res.json({ok: true})
TxCommit(r) ==
    /\ txs[r].active
    /\ txs[r].done = Len(TxStatements(txs[r].ev))
    /\ db' = WithRowsOf(db, txs[r].work, txs[r].ev.stepId)
    /\ lastReq' = [ev |-> txs[r].ev, outcome |-> "ok", done |-> txs[r].done,
                   repeat |-> lastReq.outcome = "ok" /\ lastReq.ev = txs[r].ev]
    /\ txs' = [txs EXCEPT ![r] = NoTx]
    /\ UNCHANGED accepted
    /\ UNCHANGED <<clientVars, stepVars>>

\* POST /v1/runs with a valid body
PostRun(r) ==
    /\ db' = [db EXCEPT !.runs = UpsertRun(@, r)]
    /\ UNCHANGED <<txs, lastReq, accepted>>
    /\ UNCHANGED <<clientVars, stepVars>>

-----------------------------------------------------------------------------
(***************************************************************************)
(* Inputs of the step specifications                                       *)
(***************************************************************************)

CandTypes == {"doc"}
Ranks == {None, Some(1)}
ReasonCodes == {None, Some("LOW_SCORE"), Some("constructor")}

\* candidate "a" with and without rank, and "b", which TOP_K and SAMPLE with
\* k = 1 may capture instead of "a"
CandInputs ==
    {Candidate("a", ty, rk) : ty \in CandTypes, rk \in Ranks}
    \cup {Candidate("b", ty, Some(1)) : ty \in CandTypes}

\* outcomes are recorded for candidate "a"; the candidates added may or may
\* not include it
OutcomeInputs ==
    {Outcome("a", ty, kind, None) : ty \in CandTypes, kind \in {"accepted", "selected"}}
    \cup {Outcome("a", ty, "rejected", rc) : ty \in CandTypes, rc \in ReasonCodes}

\* a policy with small limits, so that a handful of candidates exceeds them;
\* io, ir: the keys includeOutcomes and includeRejected
PolicyInput(mode, io, ir) ==
    Some([mode |-> Some(Some(mode)), threshold |-> Some(Some(1)),
          topK |-> Some(Some(1)), sampleN |-> Some(Some(1)),
          includeOutcomes |-> io, includeRejected |-> ir])

Modes == {"FULL", "TOP_K", "SAMPLE", "SUMMARY_ONLY", "THRESHOLD"}

\* includeOutcomes / includeRejected: the key is missing or false, or both
\* are true
FlagInputs == {None, Some(Some(FALSE))}

\* mode THRESHOLD with a threshold that as many candidates as a step adds
\* here just reach, and topK below it
ThresholdPolicyInput ==
    Some([mode |-> Some(Some("THRESHOLD")), threshold |-> Some(Some(MaxCands)),
          topK |-> Some(Some(1)), sampleN |-> None,
          includeOutcomes |-> None, includeRejected |-> None])

PolicyInputs ==
    {None, ThresholdPolicyInput}
    \cup {PolicyInput(m, io, ir) : m \in Modes, io \in FlagInputs, ir \in FlagInputs}
    \cup {PolicyInput(m, Some(Some(TRUE)), Some(Some(TRUE))) : m \in Modes}

StepInit(policy, startedAt) ==
    [stepId |-> "s1", runId |-> "r1", name |-> "n1", type |-> "t1",
     startedAt |-> startedAt, input |-> None, meta |-> None,
     capturePolicy |-> policy]

EmptyDb == [runs |-> {}, steps |-> {}, metrics |-> {}, cands |-> {}, outs |-> {}]

\* the parts of the system a specification leaves alone
ClientIdle ==
    /\ q = <<>> /\ timerOn = TRUE /\ rounds = {} /\ nextEv = 1
    /\ delivered = <<>> /\ evicted = {}
    /\ onErrorCalls = 0 /\ thrownToHost = 0 /\ failures = 0

StepIdle ==
    /\ stInit = StepInit(None, 1)
    /\ stCands = <<>> /\ stOuts = <<>>
    /\ stReasoning = None /\ stOutput = None
    /\ stStatus = "running" /\ stEndedAt = None

ServerIdle ==
    /\ db = EmptyDb
    /\ txs = [r \in AllReqs |-> NoTx]
    /\ lastReq = [outcome |-> "none"]
    /\ accepted = 0

(***************************************************************************)
(* SpecFinal: a step that has accumulated any candidates and outcomes is   *)
(* finalized.  The queue is empty and one more event fits the run.         *)
(***************************************************************************)
InitFinal ==
    /\ q = <<>> /\ timerOn = TRUE /\ rounds = {}
    /\ nextEv = MaxEvents
    /\ delivered = <<>> /\ evicted = {}
    /\ onErrorCalls = 0 /\ thrownToHost = 0 /\ failures = 0
    /\ stInit \in {StepInit(p, MaxTime) : p \in PolicyInputs}
    /\ stCands \in SeqsOf(CandInputs, 0, MaxCands)
    /\ stOuts \in SeqsOf(OutcomeInputs, 0, MaxOuts)
    /\ stReasoning = None
    /\ stOutput = None
    /\ stStatus = "running"
    /\ stEndedAt = None
    /\ ServerIdle

NextFinal ==
    \/ EndSuccess
    \/ EndError(Some("boom"))

SpecFinal == InitFinal /\ [][NextFinal]_vars

-----------------------------------------------------------------------------
(***************************************************************************)
(* SpecKeys: a step is finalized whose candidate ids and types contain     *)
(* ':', the separator of the lookup key.  candidateId and candidateType    *)
(* are any strings.                                                        *)
(***************************************************************************)

\* two candidates, different in type and in id
KeyCandInputs == {Candidate("b:c", "a", None), Candidate("c", "a:b", None)}

KeyOutcomeInputs ==
    {Outcome(c.candidateId, c.candidateType, kind, Some("LOW_SCORE")) :
        c \in KeyCandInputs, kind \in {"accepted", "rejected", "selected"}}

InitKeys ==
    /\ q = <<>> /\ timerOn = TRUE /\ rounds = {}
    /\ nextEv = MaxEvents
    /\ delivered = <<>> /\ evicted = {}
    /\ onErrorCalls = 0 /\ thrownToHost = 0 /\ failures = 0
    /\ stInit \in {StepInit(p, MaxTime) : p \in PolicyInputs}
    /\ stCands \in SeqsOf(KeyCandInputs, 0, MaxCands)
    /\ stOuts \in SeqsOf(KeyOutcomeInputs, 0, MaxOuts)
    /\ stReasoning = None
    /\ stOutput = None
    /\ stStatus = "running"
    /\ stEndedAt = None
    /\ ServerIdle

NextKeys ==
    \/ EndSuccess
    \/ EndError(Some("boom"))

SpecKeys == InitKeys /\ [][NextKeys]_vars

-----------------------------------------------------------------------------
(***************************************************************************)
(* SpecSample: a step under mode SAMPLE, with up to MaxSample candidates   *)
(* and any sampleN, is finalized.                                          *)
(***************************************************************************)

SampleIds == <<"a", "b", "c", "d", "e", "f", "g", "h">>

\* mode SAMPLE with sampleN = k
SamplePolicyInput(k) ==
    Some([mode |-> Some(Some("SAMPLE")), threshold |-> None,
          topK |-> None, sampleN |-> Some(Some(k)),
          includeOutcomes |-> None, includeRejected |-> None])

InitSample ==
    /\ q = <<>> /\ timerOn = TRUE /\ rounds = {}
    /\ nextEv = MaxEvents
    /\ delivered = <<>> /\ evicted = {}
    /\ onErrorCalls = 0 /\ thrownToHost = 0 /\ failures = 0
    /\ stInit \in {StepInit(SamplePolicyInput(k), MaxTime) : k \in 0..MaxSample}
    /\ \E n \in 0..Min(MaxSample, Len(SampleIds)) :
           stCands = [i \in 1..n |-> Candidate(SampleIds[i], "doc", None)]
    /\ stOuts \in SeqsOf(OutcomeInputs, 0, 1)
    /\ stReasoning = None
    /\ stOutput = None
    /\ stStatus = "running"
    /\ stEndedAt = None
    /\ ServerIdle

NextSample ==
    \/ EndSuccess
    \/ EndError(Some("boom"))

SpecSample == InitSample /\ [][NextSample]_vars

-----------------------------------------------------------------------------
(***************************************************************************)
(* SpecPolicy: a step is finalized whose policy has keys that are missing, *)
(* undefined, invalid or set.                                              *)
(***************************************************************************)

\* a key that is missing or undefined
Unset == {None, Some(None)}

PartialPolicyInputs ==
    {None}
    \cup {Some([mode |-> m, threshold |-> th, topK |-> k, sampleN |-> None,
                includeOutcomes |-> io, includeRejected |-> None]) :
            m \in Unset \cup {Some(Some("TOP_K")), Some(Some("BOGUS"))},
            th \in Unset \cup {Some(Some(1))},
            k \in Unset \cup {Some(Some(0)), Some(Some(1))},
            io \in Unset \cup {Some(Some(FALSE))}}

InitPolicy ==
    /\ q = <<>> /\ timerOn = TRUE /\ rounds = {}
    /\ nextEv = MaxEvents
    /\ delivered = <<>> /\ evicted = {}
    /\ onErrorCalls = 0 /\ thrownToHost = 0 /\ failures = 0
    /\ stInit \in {StepInit(p, MaxTime) : p \in PartialPolicyInputs}
    /\ stCands \in SeqsOf(CandInputs, 0, MaxCands)
    /\ stOuts \in SeqsOf(OutcomeInputs, 0, 1)
    /\ stReasoning = None
    /\ stOutput = None
    /\ stStatus = "running"
    /\ stEndedAt = None
    /\ ServerIdle

NextPolicy ==
    \/ EndSuccess
    \/ EndError(Some("boom"))

SpecPolicy == InitPolicy /\ [][NextPolicy]_vars

-----------------------------------------------------------------------------
(***************************************************************************)
(* SpecRanks: a step under mode TOP_K is finalized whose candidates have   *)
(* no rank, a small rank, or a rank above the sentinel 1e9.  rank is any   *)
(* integer.                                                                *)
(***************************************************************************)

RankCandInputs ==
    {Candidate("a", "doc", None), Candidate("b", "doc", Some(1)),
     Candidate("c", "doc", Some(1)), Candidate("d", "doc", Some(MissingRank + 1))}

\* mode TOP_K with topK = k
TopKPolicyInput(k) ==
    Some([mode |-> Some(Some("TOP_K")), threshold |-> None,
          topK |-> Some(Some(k)), sampleN |-> None,
          includeOutcomes |-> None, includeRejected |-> None])

InitRanks ==
    /\ q = <<>> /\ timerOn = TRUE /\ rounds = {}
    /\ nextEv = MaxEvents
    /\ delivered = <<>> /\ evicted = {}
    /\ onErrorCalls = 0 /\ thrownToHost = 0 /\ failures = 0
    /\ stInit \in {StepInit(TopKPolicyInput(k), MaxTime) : k \in 0..MaxCands}
    /\ stCands \in SeqsOf(RankCandInputs, 0, MaxCands)
    /\ stOuts \in SeqsOf(OutcomeInputs, 0, 1)
    /\ stReasoning = None
    /\ stOutput = None
    /\ stStatus = "running"
    /\ stEndedAt = None
    /\ ServerIdle

NextRanks ==
    \/ EndSuccess
    \/ EndError(Some("boom"))

SpecRanks == InitRanks /\ [][NextRanks]_vars

(***************************************************************************)
(* SpecStep: the life of one step handle returned by run.step(): the       *)
(* "running" event is queued, the host then calls the handle's methods in  *)
(* any order.                                                              *)
(***************************************************************************)
StepCandInputs == {Candidate("a", "doc", Some(1))}

StepOutcomeInputs ==
    {Outcome("a", "doc", "rejected", Some("LOW_SCORE")),
     Outcome("a", "doc", "selected", None)}

StepPolicyInputs == {PolicyInput("FULL", None, None), PolicyInput("TOP_K", None, None)}

\* the earlier events of the run have left the queue; the step's "running"
\* event and two more events fit the run
InitStep ==
    /\ stInit \in {StepInit(p, MaxTime) : p \in StepPolicyInputs}
    /\ q = <<[id |-> MaxEvents - 2, path |-> "/v1/steps", body |-> RunningBody(stInit)]>>
    /\ timerOn = TRUE /\ rounds = {}
    /\ nextEv = MaxEvents - 1
    /\ delivered = <<>> /\ evicted = {}
    /\ onErrorCalls = 0 /\ thrownToHost = 0 /\ failures = 0
    /\ stCands = <<>>
    /\ stOuts = <<>>
    /\ stReasoning = None
    /\ stOutput = None
    /\ stStatus = "running"
    /\ stEndedAt = None
    /\ ServerIdle

NextStep ==
    \/ IngestRunning
    \/ \E batch \in SeqsOf(StepCandInputs, 1, 1) : AddCandidates(batch)
    \/ \E o \in StepOutcomeInputs : RecordOutcome(o)
    \/ SetReasoning(Some([note |-> Some("r1"), error |-> None]))
    \/ SetOutput(Some("o1"))
    \/ EndSuccess
    \/ EndError(Some("boom"))

SpecStep == InitStep /\ [][NextStep]_vars

-----------------------------------------------------------------------------
(***************************************************************************)
(* SpecServer: the API receives run events and step events, one step       *)
(* transaction at a time, each statement of which may fail.                *)
(***************************************************************************)

\* StepIngestSchema.safeParse(req.body).data for the JSON of a body the SDK
\* built: the keys of the schema, those the body lacks read as undefined
WireBody(body) ==
    [k \in (DOMAIN body \ {"candidatesSameArray"}) \cup {"parentStepId"} |->
        IF k \notin DOMAIN body THEN None
        ELSE IF k \in {"meta", "capturePolicy"} THEN Some(body[k])
        ELSE body[k]]

\* the event startRun() enqueues
RunStartBody ==
    [runId |-> "r1", traceId |-> "tr1", pipeline |-> "p1", pipelineVersion |-> None,
     status |-> "running", startedAt |-> 1, endedAt |-> None, durationMs |-> None,
     input |-> None, output |-> None, error |-> None,
     tags |-> Some(EmptyObject), meta |-> Some(EmptyObject)]

\* the event endSuccess(output) / endError(error) of a run enqueues
RunEndBody(status, endedAt, output, error) ==
    [runId |-> "r1", traceId |-> "tr1", pipeline |-> "unknown", pipelineVersion |-> None,
     status |-> status, startedAt |-> endedAt, endedAt |-> Some(endedAt),
     durationMs |-> None, input |-> None, output |-> output, error |-> error,
     tags |-> None, meta |-> None]

RunEventInputs ==
    {RunStartBody,
     RunEndBody("success", 2, Some("o1"), None)}

\* what the steps whose events reach the API have accumulated: the
\* candidates and the outcomes of a step
ServerStepInputs ==
    {<<<<>>, <<>>>>,
     <<<<Candidate("a", "doc", Some(1))>>,
       <<Outcome("a", "doc", "rejected", Some("LOW_SCORE"))>>>>,
     <<<<Candidate("a", "doc", None), Candidate("b", "doc", Some(1))>>,
       <<Outcome("a", "doc", "rejected", None), Outcome("a", "doc", "selected", None)>>>>}

\* the events the SDK sends for step "s1" of run "r1" under policy FULL
StepEventInputs ==
    LET init == StepInit(PolicyInput("FULL", None, None), 1)
        Finals(cs, os) ==
            UNION {{WireBody(FinalBody(init, cs, os, "success", Some(2),
                                       Some("o1"), None, cap)),
                    WireBody(FinalBody(init, cs, os, "error", Some(2), None,
                                       Some(WithError(None, Some("boom"))), cap))} :
                   cap \in ApplyCapturePolicy(cs, os, init.capturePolicy)}
    IN  {WireBody(RunningBody(init))}
        \cup UNION {Finals(x[1], x[2]) : x \in ServerStepInputs}

\* the request slots SpecServer uses
ServerReqs == {1}

InitServer == ClientIdle /\ StepIdle /\ ServerIdle

NextServer ==
    \/ \E e \in RunEventInputs : PostRun(e)
    \/ \E r \in ServerReqs, s \in StepEventInputs : BeginStepIngest(r, s)
    \/ \E r \in ServerReqs : TxStatement(r)
    \/ \E r \in ServerReqs : TxFailure(r)
    \/ \E r \in ServerReqs : TxCommit(r)

SpecServer == InitServer /\ [][NextServer]_vars

-----------------------------------------------------------------------------
(***************************************************************************)
(* SpecClient: one XRayClient; the host enqueues events, the timer and the *)
(* host start flush rounds, requests resolve or throw.                     *)
(***************************************************************************)
InitClient == ClientIdle /\ StepIdle /\ ServerIdle

NextClient ==
    \/ HostEnqueue
    \/ TimerFlush
    \/ ExplicitFlush
    \/ \E r \in rounds : RequestOk(r)
    \/ \E r \in rounds : RequestFail(r)
    \/ Shutdown

SpecClient == InitClient /\ [][NextClient]_vars

-----------------------------------------------------------------------------
(***************************************************************************)
(* SpecDrain: the host has stopped enqueueing and has called shutdown();   *)
(* it calls flush() on what is queued.                                     *)
(***************************************************************************)

\* the queue after n enqueue calls, n <= maxQueue
QueueOf(n) == [i \in 1..n |-> [id |-> i, path |-> "/v1/steps", body |-> None]]

InitDrain ==
    /\ \E n \in 0..MaxQueue : q = QueueOf(n) /\ nextEv = n + 1
    /\ timerOn = FALSE /\ rounds = {}
    /\ delivered = <<>> /\ evicted = {}
    /\ onErrorCalls = 0 /\ thrownToHost = 0 /\ failures = 0
    /\ StepIdle /\ ServerIdle

NextDrain ==
    \/ ExplicitFlush
    \/ \E r \in rounds : RequestOk(r)
    \/ \E r \in rounds : RequestFail(r)

SpecDrain == InitDrain /\ [][NextDrain]_vars

-----------------------------------------------------------------------------
(***************************************************************************)
(* SpecStore: step events are delivered to POST /v1/steps one after the    *)
(* other, each in a transaction that commits.                              *)
(***************************************************************************)

\* StepIngestSchema.safeParse(req.body).success, for the bodies the SDK
\* builds: their other fields have the schema's types, a value of
\* rejectionHistogram is an integer or a string
ValidStepBody(s) ==
    IF s.rejectionHistogram = None THEN TRUE
    ELSE \A k \in DOMAIN s.rejectionHistogram[1] : s.rejectionHistogram[1][k].s = ""

\* events for step "s1": the SDK's running event; its final event with a
\* candidate, an outcome and an output; a final event that has the same
\* candidate twice and two rejections of it; one with two candidates and a
\* selection; one that failed; the final event as a client that sets
\* parentStepId sends it; the running event with another run, name, type
\* and start
StoreEvents ==
    LET init == StepInit(PolicyInput("FULL", None, None), 1)
        Final(cs, os) ==
            LET cap == CHOOSE c \in ApplyCapturePolicy(cs, os, init.capturePolicy) : TRUE
            IN  WireBody(FinalBody(init, cs, os, "success", Some(2), Some("o1"), None, cap))
        running == WireBody(RunningBody(init))
        final == Final(<<Candidate("a", "doc", Some(1))>>,
                       <<Outcome("a", "doc", "rejected", Some("LOW_SCORE"))>>)
    IN  {running,
         final,
         Final(<<Candidate("a", "doc", None), Candidate("a", "doc", Some(1))>>,
               <<Outcome("a", "doc", "rejected", None),
                 Outcome("a", "doc", "rejected", Some("LOW_SCORE"))>>),
         Final(<<Candidate("a", "doc", None), Candidate("b", "doc", Some(1))>>,
               <<Outcome("b", "doc", "selected", None)>>),
         [final EXCEPT !.status = "error", !.output = None,
                       !.reasoning = Some(WithError(None, Some("boom")))],
         [final EXCEPT !.parentStepId = Some("s0")],
         [running EXCEPT !.runId = "r2", !.name = "n2", !.type = "t2", !.startedAt = 2]}

\* the running event of step "s0"
ParentStepEvent == WireBody(RunningBody([StepInit(None, 1) EXCEPT !.stepId = "s0"]))

\* run "r1" is stored, with or without its step "s0"
InitStore ==
    /\ ClientIdle /\ StepIdle
    /\ \E withRun \in {[EmptyDb EXCEPT !.runs = UpsertRun({}, RunStartBody)]} :
           db \in {withRun, IngestStep(withRun, ParentStepEvent)}
    /\ txs = [r \in AllReqs |-> NoTx]
    /\ lastReq = [outcome |-> "none"]
    /\ accepted = 0

\* POST /v1/steps with body s: valid, no statement fails, the transaction
\* commits
DeliverStep(s) ==
    /\ accepted < MaxDeliveries
    /\ ValidStepBody(s)
    /\ ~ ViolatesForeignKey(db, TxStatements(s)[1], s)
    /\ db' = IngestStep(db, s)
    /\ lastReq' = [ev |-> s, outcome |-> "ok", done |-> Len(TxStatements(s)),
                   repeat |-> lastReq.outcome = "ok" /\ lastReq.ev = s]
    /\ accepted' = accepted + 1
    /\ UNCHANGED txs
    /\ UNCHANGED <<clientVars, stepVars>>

NextStore == \E s \in StoreEvents : DeliverStep(s)

SpecStore == InitStore /\ [][NextStore]_vars

-----------------------------------------------------------------------------
(***************************************************************************)
(* SpecConcurrent: two POST /v1/steps requests are served at once; the     *)
(* statements of their transactions interleave, each may fail.             *)
(***************************************************************************)
InitConcurrent == InitStore

NextConcurrent ==
    \/ \E r \in AllReqs, s \in StoreEvents : BeginStepIngest(r, s)
    \/ \E r \in AllReqs : TxStatement(r)
    \/ \E r \in AllReqs : TxFailure(r)
    \/ \E r \in AllReqs : TxCommit(r)

SpecConcurrent == InitConcurrent /\ [][NextConcurrent]_vars

-----------------------------------------------------------------------------
(***************************************************************************)
(* SpecDelivery: the client's flush rounds post queued step events to the  *)
(* API, which validates each one and ingests it in a transaction.          *)
(***************************************************************************)

\* the final events of three steps of run "r1" under policy FULL, in a
\* table by event id: a step with a candidate rejected for "LOW_SCORE", a
\* step with a candidate rejected for "constructor", and a step without
\* candidates that failed
DeliveryEvents ==
    LET init(sid) == [StepInit(PolicyInput("FULL", None, None), 1) EXCEPT !.stepId = sid]
        Final(sid, cs, os, status) ==
            LET cap == CHOOSE c \in ApplyCapturePolicy(cs, os, init(sid).capturePolicy) : TRUE
            IN  WireBody(FinalBody(init(sid), cs, os, status, Some(2), None, None, cap))
    IN  <<Final("s1", <<Candidate("a", "doc", Some(1))>>,
                <<Outcome("a", "doc", "rejected", Some("LOW_SCORE"))>>, "success"),
          Final("s2", <<Candidate("a", "doc", Some(1))>>,
                <<Outcome("a", "doc", "rejected", Some("constructor"))>>, "success"),
          Final("s3", <<>>, <<>>, "error")>>

DeliveryEvent(id) == [id |-> id, path |-> "/v1/steps", body |-> DeliveryEvents[id]]

\* the queues of distinct events that fit maxQueue
DeliveryQueues ==
    {qq \in SeqsOf(DOMAIN DeliveryEvents, 0, Min(MaxQueue, Len(DeliveryEvents))) :
        \A i, j \in 1..Len(qq) : i # j => qq[i] # qq[j]}

\* the events are queued; the row of run "r1" is stored, or it is not (its
\* event was evicted or is still to come)
InitDelivery ==
    /\ \E qq \in DeliveryQueues : q = [i \in 1..Len(qq) |-> DeliveryEvent(qq[i])]
    /\ timerOn = TRUE /\ rounds = {}
    /\ nextEv = Len(DeliveryEvents) + 1
    /\ delivered = <<>> /\ evicted = {}
    /\ onErrorCalls = 0 /\ thrownToHost = 0 /\ failures = 0
    /\ StepIdle
    /\ db \in {EmptyDb, [EmptyDb EXCEPT !.runs = UpsertRun({}, RunStartBody)]}
    /\ txs = [r \in AllReqs |-> NoTx]
    /\ lastReq = [outcome |-> "none"]
    /\ accepted = 0

\* POST /v1/steps with a body that fails validation: res.status(400); the
\* client's request resolves
ServeInvalid(r) ==
    /\ r \in rounds
    /\ ~ ValidStepBody(r.batch[r.pos].body)
    /\ RequestResolves(r)
    /\ UNCHANGED <<stepVars, serverVars>>

\* POST /v1/steps with a valid body, the transaction commits:
\* res.json({ok: true}); the client's request resolves
ServeCommit(r) ==
    /\ r \in rounds
    /\ ValidStepBody(r.batch[r.pos].body)
    /\ ~ ViolatesForeignKey(db, TxStatements(r.batch[r.pos].body)[1], r.batch[r.pos].body)
    /\ db' = IngestStep(db, r.batch[r.pos].body)
    /\ RequestResolves(r)
    /\ UNCHANGED <<txs, lastReq, accepted>>
    /\ UNCHANGED stepVars

\* the transaction of a valid body throws (the foreign key, the connection,
\* its timeout) and rolls back
ServeRollback(r) ==
    /\ r \in rounds
    /\ ValidStepBody(r.batch[r.pos].body)
    /\ db' = AfterRollback(db, [active |-> TRUE, ev |-> r.batch[r.pos].body, done |-> 0,
                                work |-> [tbl \in StepTables |-> {}]])
    /\ UNCHANGED <<txs, lastReq, accepted>>
    /\ UNCHANGED stepVars

\* the async handler's promise rejects and the app has no error handler:
\* Express 5 answers 500 by its default handler, and the client's request
\* resolves
ServeRollbackAnswered(r) ==
    /\ ServeRollback(r)
    /\ RequestResolves(r)

\* Express 4 does not see the rejection and never answers: the client's
\* request throws after timeoutMs
ServeRollbackUnanswered(r) ==
    /\ ServeRollback(r)
    /\ RequestThrows(r)

NextDelivery ==
    \/ TimerFlush
    \/ ExplicitFlush
    \/ \E r \in rounds : ServeInvalid(r)
    \/ \E r \in rounds : ServeCommit(r)
    \/ \E r \in rounds : ServeRollbackAnswered(r)
    \/ \E r \in rounds : ServeRollbackUnanswered(r)
    \/ \E r \in rounds : RequestFail(r)

SpecDelivery == InitDelivery /\ [][NextDelivery]_vars


-----------------------------------------------------------------------------
(***************************************************************************)
(* SpecRun: the host starts a run, opens steps and ends the run; the       *)
(* client's flush rounds post the queued events to the API.                *)
(***************************************************************************)

\* startRun(run): the first event of the run
StartRun ==
    /\ nextEv = 1
    /\ ClientEnqueue("/v1/runs", RunStartBody)
    /\ UNCHANGED <<timerOn, rounds, delivered, onErrorCalls, thrownToHost, failures>>
    /\ UNCHANGED <<stepVars, serverVars>>

\* run.step(s): the handle's ingestRunning(), on the handle startRun returned
RunStep ==
    /\ nextEv > 1
    /\ IngestRunning

\* run.endSuccess(output), on the handle startRun returned
RunEndSuccess ==
    /\ nextEv > 1
    /\ \E t \in 1..MaxTime :
           ClientEnqueue("/v1/runs", RunEndBody("success", t, Some("o1"), None))
    /\ UNCHANGED <<timerOn, rounds, delivered, onErrorCalls, thrownToHost, failures>>
    /\ UNCHANGED <<stepVars, serverVars>>

\* POST /v1/runs with the event round r is sending: the upsert, then
\* res.json({ok: true}); the client's request resolves
ServeRun(r) ==
    /\ r \in rounds
    /\ r.batch[r.pos].path = "/v1/runs"
    /\ db' = [db EXCEPT !.runs = UpsertRun(@, r.batch[r.pos].body)]
    /\ RequestResolves(r)
    /\ UNCHANGED <<txs, lastReq, accepted>>
    /\ UNCHANGED stepVars

\* POST /v1/steps with the event round r is sending: the transaction
\* commits, or it fails on the foreign key, rolls back and the request is
\* answered 500; the client's request resolves
ServeStepOfRun(r) ==
    /\ r \in rounds
    /\ r.batch[r.pos].path = "/v1/steps"
    /\ db' = PostStep(db, WireBody(r.batch[r.pos].body))
    /\ RequestResolves(r)
    /\ UNCHANGED <<txs, lastReq, accepted>>
    /\ UNCHANGED stepVars

InitRun == ClientIdle /\ StepIdle /\ ServerIdle

NextRun ==
    \/ StartRun
    \/ RunStep
    \/ RunEndSuccess
    \/ TimerFlush
    \/ ExplicitFlush
    \/ \E r \in rounds : ServeRun(r)
    \/ \E r \in rounds : ServeStepOfRun(r)
    \/ \E r \in rounds : RequestFail(r)

SpecRun == InitRun /\ [][NextRun]_vars

-----------------------------------------------------------------------------
(***************************************************************************)
(* SpecPoison: one of the events the host enqueues has a body that          *)
(* JSON.stringify throws on (a circular structure), so its request throws  *)
(* at every attempt; the requests of all other events resolve.  The timer  *)
(* keeps firing and every request issued completes.                        *)
(***************************************************************************)

\* a body JSON.stringify(ev.body) throws on
PoisonBody == Some("circular")

\* the host enqueues an event; the first or the second event of the
\* behaviour may be the one with the circular body, and only one is
EnqueueAny ==
    /\ \E body \in {None, PoisonBody} :
           /\ body = PoisonBody =>
                  /\ nextEv <= 2
                  /\ \A i \in 1..Len(q) : q[i].body # PoisonBody
                  /\ \A r \in rounds : \A i \in 1..Len(r.batch) :
                         r.batch[i].body # PoisonBody
           /\ ClientEnqueue("/v1/steps", body)
    /\ UNCHANGED <<timerOn, rounds, delivered, onErrorCalls, thrownToHost, failures>>
    /\ UNCHANGED <<stepVars, serverVars>>

\* the request of a serializable event resolves
SendResolves(r) ==
    /\ r \in rounds
    /\ r.batch[r.pos].body # PoisonBody
    /\ RequestResolves(r)
    /\ UNCHANGED <<stepVars, serverVars>>

\* JSON.stringify throws inside the try: the catch unshifts the event and
\* rethrows.  The observation counters stop counting at MaxFailures
SendThrows(r) ==
    /\ r \in rounds
    /\ r.batch[r.pos].body = PoisonBody
    /\ q' = Requeued(r) \o q
    /\ rounds' = rounds \ {r}
    /\ failures' = Min(failures + 1, MaxFailures)
    /\ IF r.trigger = "timer"
       THEN onErrorCalls' = Min(onErrorCalls + 1, MaxFailures) /\ UNCHANGED thrownToHost
       ELSE thrownToHost' = Min(thrownToHost + 1, MaxFailures) /\ UNCHANGED onErrorCalls
    /\ UNCHANGED <<timerOn, nextEv, delivered, evicted>>
    /\ UNCHANGED <<stepVars, serverVars>>

\* the request of event id, issued by the round that holds it, completes
Completes(id) ==
    \E r \in rounds : r.batch[r.pos].id = id /\ (SendResolves(r) \/ SendThrows(r))

InitPoison == ClientIdle /\ StepIdle /\ ServerIdle

NextPoison ==
    \/ EnqueueAny
    \/ TimerFlush
    \/ ExplicitFlush
    \/ \E r \in rounds : SendResolves(r)
    \/ \E r \in rounds : SendThrows(r)

\* setInterval keeps calling flush() (client.ts:20), and every request ends,
\* by its response or by headersTimeout / bodyTimeout (client.ts:42-43)
SpecPoison ==
    /\ InitPoison
    /\ [][NextPoison]_vars
    /\ WF_vars(TimerFlush)
    /\ \A id \in 1..MaxEvents : WF_vars(Completes(id))

-----------------------------------------------------------------------------
(***************************************************************************)
(* Properties of XRayClient, checked under SpecClient                      *)
(***************************************************************************)

\* the events of round r whose request has not resolved
Undelivered(r) == SubSeq(r.batch, r.pos, Len(r.batch))

\* the identities of the events in flight
InFlightIds == UNION {{r.batch[i].id : i \in r.pos..Len(r.batch)} : r \in rounds}

QueuedIds == {q[i].id : i \in 1..Len(q)}

DeliveredIds == {delivered[i] : i \in 1..Len(delivered)}

\* C1: when a request of a flush round fails, the round stops and every event
\* of its batch that was not delivered is back at the front of the queue, in
\* the batch's order (so a round whose first request fails leaves the queue
\* as it was before the round).
C1_FailedFlushRestoresBatch ==
    [][\A r \in rounds :
           (failures' = failures + 1 /\ r \notin rounds')
               => q' = Undelivered(r) \o q]_vars

\* C2: every event enqueued so far and not evicted by overflow is in the
\* queue, in flight or delivered.
C2_NoEventLost ==
    \A id \in 1..(nextEv - 1) :
        id \in evicted \cup QueuedIds \cup InFlightIds \cup DeliveredIds

\* C3: at most one flush round is in progress at any time.
C3_OneRoundAtATime == Cardinality(rounds) <= 1

\* no flush() has taken an event so far
NoFlushYet == rounds = {} /\ delivered = <<>> /\ failures = 0

\* C11: after m enqueue calls and no flush, the queue holds the last
\* min(m, maxQueue) events enqueued, in the order they were enqueued.
C11_EvictionIsFifo ==
    NoFlushYet =>
        LET m == nextEv - 1
            n == Min(m, MaxQueue)
        IN  /\ Len(q) = n
            /\ \A i \in 1..n : q[i].id = m - n + i

\* more events than maxQueue were enqueued: the queue is full and the first
\* event is gone
C11_OldestEvicted ==
    /\ NoFlushYet
    /\ nextEv - 1 > MaxQueue
    /\ Len(q) = MaxQueue
    /\ 1 \notin QueuedIds
    /\ nextEv - 1 \in QueuedIds

\* C12: the queue never holds more than maxQueue events.
C12_QueueBounded == Len(q) <= MaxQueue

\* C13: an enqueue that drops events records or reports it.  The client has
\* no field besides the queue and the timer, so the only place a drop could
\* show is a call of the handler.
C13_EvictionsReported ==
    [][(evicted' # evicted) => (onErrorCalls' > onErrorCalls)]_vars

\* C14: every failed round, started by the timer or by flush(), has called
\* onError once, and no failure has reached the host that called flush().
C14_OnErrorOncePerFailedRound ==
    /\ onErrorCalls = failures
    /\ thrownToHost = 0

\* C17: a round takes at most the batch size and issues one request: the
\* request it awaits is its first.
C17_OneRequestPerRound ==
    \A r \in rounds : Len(r.batch) <= BatchSize /\ r.pos <= 1

\* the rounds a step starts
StartedRounds == {r \in rounds' : r \notin rounds /\ r.pos = 1}

\* C18: once the timer is cleared it stays cleared and no round is started by
\* the timer; the step that clears it changes neither the queue nor the
\* rounds nor what was delivered; afterwards the host can still enqueue and
\* an explicit flush still starts a round on a non-empty queue.
C18_ShutdownOnlyStopsTimer ==
    /\ [][/\ (~ timerOn) => /\ ~ timerOn'
                            /\ \A r \in StartedRounds : r.trigger # "timer"
          /\ (timerOn /\ ~ timerOn') => /\ q' = q
                                       /\ rounds' = rounds
                                       /\ delivered' = delivered]_vars
    /\ [] ((~ timerOn) =>
              /\ (nextEv <= MaxEvents) => ENABLED HostEnqueue
              /\ (q # <<>> /\ Cardinality(rounds) < MaxRounds)
                     => ENABLED (ExplicitFlush /\ rounds' # rounds))

\* after shutdown: the timer is cleared, an explicit round is in progress and
\* events are still queued
C18_AfterShutdown ==
    /\ ~ timerOn
    /\ q # <<>>
    /\ \E r \in rounds : r.trigger = "explicit"
    /\ ~ \E r \in rounds : r.trigger = "timer"

\* the store holds the data of step event b
Applied(b) == \E row \in db.steps : row.id = b.stepId /\ row.status = b.status

\* C15: an event that has left the queue for good (its request has resolved
\* and it is neither queued nor in flight) has been applied by the server.
C15_LeavesQueueOnlyWhenApplied ==
    \A id \in DeliveredIds \ (QueuedIds \cup InFlightIds) : Applied(DeliveryEvents[id])

\* C16: when a flush() has completed, no request has failed and nothing was
\* enqueued since it was called, the queue is empty and every event that was
\* queued has been delivered.  (Under SpecDrain nothing is enqueued after the
\* initial state and only flush() starts rounds.)
C16_FlushDrains ==
    (rounds = {} /\ failures = 0 /\ delivered # <<>>)
        => /\ q = <<>>
           /\ DeliveredIds = 1..(nextEv - 1)

\* C37: no queued event is taken by two flush rounds: the batches of the
\* rounds in progress have no event in common and none that is still queued,
\* and an event whose request has resolved is neither queued nor in flight
\* nor delivered a second time.
C37_NoEventTakenTwice ==
    /\ \A r1, r2 \in rounds :
           r1 # r2 => {r1.batch[i].id : i \in 1..Len(r1.batch)}
                          \cap {r2.batch[i].id : i \in 1..Len(r2.batch)} = {}
    /\ \A r \in rounds : \A i, j \in 1..Len(r.batch) :
           i # j => r.batch[i].id # r.batch[j].id
    /\ QueuedIds \cap InFlightIds = {}
    /\ DeliveredIds \cap (QueuedIds \cup InFlightIds) = {}
    /\ \A i, j \in 1..Len(delivered) : i # j => delivered[i] # delivered[j]

\* two rounds are in progress, one of them started by the timer and one by
\* flush(); an event has been delivered, a request has failed and its event
\* is queued again
C37_TwoRoundsAfterFailure ==
    /\ Cardinality(rounds) = 2
    /\ \E r1, r2 \in rounds : r1.trigger = "timer" /\ r2.trigger = "explicit"
    /\ delivered # <<>>
    /\ failures > 0
    /\ q # <<>>

\* C33: events are delivered in enqueue order: if event a was enqueued
\* before event b (identities are given in enqueue order) and the requests
\* of both have resolved, a's resolved before b's.
C33_DeliveredInEnqueueOrder ==
    \A i, j \in 1..Len(delivered) : i < j => delivered[i] < delivered[j]

\* C38: a permanently undeliverable event does not block the queue: every
\* other event that is queued is eventually delivered by the repeated flush
\* rounds, unless overflow evicts it.
C38_OthersEventuallyDelivered ==
    \A id \in 1..MaxEvents :
        (\E i \in 1..Len(q) : q[i].id = id /\ q[i].body # PoisonBody)
            ~> (id \in DeliveredIds \cup evicted)

-----------------------------------------------------------------------------
(***************************************************************************)
(* Properties of XRayStep, checked under SpecStep and SpecFinal            *)
(***************************************************************************)

\* the positions of the queue that hold a finalized event of the step
FinalEvents == {i \in 1..Len(q) : q[i].body.status # "running"}

\* C4: the step instance contributes at most one finalized event to the
\* queue: a second endSuccess/endError enqueues nothing.
C4_AtMostOneFinalEvent == Cardinality(FinalEvents) <= 1

\* C5: once the status of the step is success or error, no operation changes
\* it.
C5_StatusIsTerminal ==
    [][(stStatus \in {"success", "error"}) => (stStatus' = stStatus)]_vars

\* the key of the histogram an outcome is counted under
ReasonKey(o) == Nullish(o.reasonCode, "UNKNOWN")

\* number of rejected outcomes of outs counted under k
RejectedWith(outs, k) ==
    Cardinality({j \in 1..Len(outs) : outs[j].outcome = "rejected" /\ ReasonKey(outs[j]) = k})

RECURSIVE SumOfCounts(_, _)
SumOfCounts(h, keys) ==
    IF keys = {} THEN 0
    ELSE LET k == CHOOSE x \in keys : TRUE
         IN  h[k].n + SumOfCounts(h, keys \ {k})

\* C6: in every finalized event, rejectionHistogram[r] is the number of
\* recorded rejected outcomes whose reason code is r ("UNKNOWN" when it has
\* none), and the values sum to metrics.rejectedCount.
C6_HistogramCountsRejections ==
    \A i \in FinalEvents :
        LET h == q[i].body.rejectionHistogram[1]
            keys == {ReasonKey(stOuts[j]) :
                        j \in {x \in 1..Len(stOuts) : stOuts[x].outcome = "rejected"}}
        IN  /\ DOMAIN h = keys
            /\ \A k \in keys : h[k] = [n |-> RejectedWith(stOuts, k), s |-> ""]
            /\ SumOfCounts(h, keys) = q[i].body.metrics.rejectedCount

\* the policy key named flag is true or unset
FlagTrueOrUnset(flag) ==
    \/ stInit.capturePolicy = None
    \/ stInit.capturePolicy[1][flag] \notin {Some(Some(FALSE))}

\* C20: in the event enqueued by finalizing a step, the accepted and rejected
\* outcomes are, in recorded order, exactly the recorded ones for which
\* includeOutcomes is true or unset, and (candidateType, candidateId) is the
\* identity of a captured candidate, and the kind is not rejected or
\* includeRejected is true or unset.
C20_OutcomeRetention ==
    \A i \in FinalEvents :
        LET captured == q[i].body.candidates[1]
            identities == {<<captured[k].candidateType, captured[k].candidateId>> :
                               k \in 1..Len(captured)}
            NotSelected(o) == o.outcome # "selected"
            Retained(o) ==
                /\ o.outcome \in {"accepted", "rejected"}
                /\ FlagTrueOrUnset("includeOutcomes")
                /\ <<o.candidateType, o.candidateId>> \in identities
                /\ (o.outcome # "rejected" \/ FlagTrueOrUnset("includeRejected"))
        IN  SelectSeq(q[i].body.outcomes[1], NotSelected) = SelectSeq(stOuts, Retained)

\* the step's policy names mode m
PolicyModeIs(m) ==
    /\ stInit.capturePolicy # None
    /\ stInit.capturePolicy[1].mode = Some(Some(m))

\* c has a rank and d has none or a larger one
RanksBefore(c, d) == c.rank # None /\ (d.rank = None \/ c.rank[1] < d.rank[1])

\* C21: under mode TOP_K with k = max(1, topK), the final event's candidates
\* are min(k, n) of the n candidates added, each from its own position; a
\* captured candidate ranks before every candidate left out, or has the same
\* rank and was added earlier (no rank counts as after every rank); the
\* captured ones are in that same order.
C21_TopKByRank ==
    \A i \in FinalEvents :
        (PolicyModeIs("TOP_K") /\ stInit.capturePolicy[1].topK \notin {None, Some(None)})
        => LET cap == q[i].body.candidates[1]
               n == Len(stCands)
               k == Max(1, stInit.capturePolicy[1].topK[1][1])
           IN  /\ Len(cap) = Min(k, n)
               /\ \E f \in [1..Len(cap) -> 1..n] :
                      /\ \A a, b \in 1..Len(cap) : a # b => f[a] # f[b]
                      /\ \A a \in 1..Len(cap) : cap[a] = stCands[f[a]]
                      /\ \A a \in 1..Len(cap) :
                             \A j \in (1..n) \ {f[b] : b \in 1..Len(cap)} :
                                 \/ RanksBefore(stCands[f[a]], stCands[j])
                                 \/ stCands[f[a]].rank = stCands[j].rank /\ f[a] < j
                      /\ \A a, b \in 1..Len(cap) :
                             a < b => \/ RanksBefore(cap[a], cap[b])
                                      \/ cap[a].rank = cap[b].rank /\ f[a] < f[b]

\* the step's policy with its mode replaced by m
WithMode(m) == Some([stInit.capturePolicy[1] EXCEPT !.mode = Some(Some(m))])

\* the final event q[i] carries a result of applyCapturePolicy under policy
SameAsUnder(i, policy) ==
    \E r \in ApplyCapturePolicy(stCands, stOuts, policy) :
        /\ q[i].body.candidates[1] = r.capturedCandidates
        /\ q[i].body.outcomes[1] = r.capturedOutcomes
        /\ q[i].body.rejectionHistogram[1] = r.histogram

\* C22: under mode FULL the final event's candidates are the candidates
\* added, in order; under mode THRESHOLD with n candidates the event is that
\* of mode FULL when n <= threshold (so all candidates, in order) and that of
\* mode TOP_K with the same topK when n > threshold.
C22_ThresholdResolves ==
    \A i \in FinalEvents :
        /\ PolicyModeIs("FULL") => q[i].body.candidates[1] = stCands
        /\ (PolicyModeIs("THRESHOLD")
            /\ stInit.capturePolicy[1].threshold \notin {None, Some(None)})
           => IF Len(stCands) <= stInit.capturePolicy[1].threshold[1][1]
              THEN /\ q[i].body.candidates[1] = stCands
                   /\ SameAsUnder(i, WithMode("FULL"))
              ELSE SameAsUnder(i, WithMode("TOP_K"))

\* a final event under THRESHOLD with exactly threshold candidates, more than
\* topK, all of them captured
C22_AtThreshold ==
    \E i \in FinalEvents :
        /\ PolicyModeIs("THRESHOLD")
        /\ stInit.capturePolicy[1].threshold = Some(Some(Len(stCands)))
        /\ stInit.capturePolicy[1].topK = Some(Some(1))
        /\ Len(stCands) >= 2
        /\ q[i].body.candidates[1] = stCands

\* the positions of the input that the shuffle with draws d leaves in the
\* first k places
SampledPositions(n, k, d) == {ShuffleBy([x \in 1..n |-> x], d)[a] : a \in 1..k}

\* of the equally likely draw vectors, how many sample the positions S
DrawsSampling(n, k, S) ==
    Cardinality({d \in DrawVectors(n) : SampledPositions(n, k, d) = S})

\* C23: under mode SAMPLE with n candidates and k = min(max(1, sampleN), n),
\* the final event's candidates are the candidates of k distinct positions;
\* every set of k positions is the result of some draws, and of as many of the
\* equally likely draws as every other, so every position is as likely to be
\* sampled as every other.
C23_SampleUniform ==
    (PolicyModeIs("SAMPLE") /\ stInit.capturePolicy[1].sampleN \notin {None, Some(None)})
    => LET n == Len(stCands)
           k == Min(Max(1, stInit.capturePolicy[1].sampleN[1][1]), n)
           subsets == {S \in SUBSET (1..n) : Cardinality(S) = k}
       IN  /\ \A S, T \in subsets :
                  /\ DrawsSampling(n, k, S) > 0
                  /\ DrawsSampling(n, k, S) = DrawsSampling(n, k, T)
           /\ \A x, y \in 1..n :
                  Cardinality({d \in DrawVectors(n) : x \in SampledPositions(n, k, d)})
                      = Cardinality({d \in DrawVectors(n) : y \in SampledPositions(n, k, d)})
           /\ \A i \in FinalEvents :
                  LET cap == q[i].body.candidates[1]
                  IN  /\ Len(cap) = k
                      /\ \E f \in [1..k -> 1..n] :
                             /\ \A a, b \in 1..k : a # b => f[a] # f[b]
                             /\ \A a \in 1..k : cap[a] = stCands[f[a]]

\* a final event under SAMPLE with 1 < k < n whose first candidate is the
\* last one added
C23_SampledFromTheEnd ==
    \E i \in FinalEvents :
        /\ PolicyModeIs("SAMPLE")
        /\ Len(stCands) >= 3
        /\ Len(q[i].body.candidates[1]) = 2
        /\ q[i].body.candidates[1][1] = stCands[Len(stCands)]

IsSelected(o) == o.outcome = "selected"

DocumentedPolicy ==
    LET given == IF stInit.capturePolicy = None THEN EmptyPolicyObject
                 ELSE stInit.capturePolicy[1]
        Number(f, default) == IF given[f] \in Unset THEN default ELSE given[f][1][1]
    IN  Some([mode |-> IF given.mode \in {Some(Some(m)) : m \in Modes}
                       THEN given.mode ELSE Some(Some("THRESHOLD")),
              threshold |-> Some(Some(Number("threshold", 200))),
              topK |-> Some(Some(Max(1, Number("topK", 50)))),
              sampleN |-> Some(Some(Max(1, Number("sampleN", 50)))),
              includeOutcomes |-> IF given.includeOutcomes \in Unset
                                  THEN Some(Some(TRUE)) ELSE given.includeOutcomes,
              includeRejected |-> IF given.includeRejected \in Unset
                                  THEN Some(Some(TRUE)) ELSE given.includeRejected])

\* C25: the final event of a step is the one the step would give with every
\* missing, undefined or invalid policy key at its default (mode THRESHOLD,
\* threshold 200, topK 50, sampleN 50, includeOutcomes and includeRejected
\* true) and with topK and sampleN <= 0 taken as 1.
C25_FallsBackToDefaults ==
    \A i \in FinalEvents : SameAsUnder(i, DocumentedPolicy)

C19_FinalMetrics ==
    \A i \in FinalEvents :
        LET b == q[i].body
            m == b.metrics
        IN  /\ m.candidatesIn = Len(stCands)
            /\ m.acceptedCount = CountKind(stOuts, "accepted")
            /\ m.rejectedCount = CountKind(stOuts, "rejected")
            /\ m.selectedCount = CountKind(stOuts, "selected")
            /\ m.candidatesCaptured = Len(b.candidates[1])
            /\ m.rejectionRate.den > 0
            /\ IF Len(stCands) > 0
               THEN m.rejectionRate.num * Len(stCands)
                        = CountKind(stOuts, "rejected") * m.rejectionRate.den
               ELSE m.rejectionRate.num = 0

\* a final event of a step with a duplicated candidate, fewer candidates
\* captured than added, and a rejection
C19_MetricsOfPartialCapture ==
    \E i \in FinalEvents :
        /\ Len(stCands) >= 2 /\ stCands[1] = stCands[2]
        /\ q[i].body.metrics.candidatesCaptured < q[i].body.metrics.candidatesIn
        /\ q[i].body.metrics.rejectedCount >= 1
        /\ q[i].body.metrics.rejectionRate.num >= 1

C34_RetainedOutcomeHasCandidate ==
    \A i \in FinalEvents :
        LET captured == q[i].body.candidates[1]
            outs == q[i].body.outcomes[1]
        IN  \A k \in 1..Len(outs) :
                outs[k].outcome \in {"accepted", "rejected"} =>
                    \E c \in 1..Len(captured) :
                        /\ captured[c].candidateType = outs[k].candidateType
                        /\ captured[c].candidateId = outs[k].candidateId

\* C32: a finalized step event is immutable: once endSuccess / endError has
\* enqueued the final event, no later call on the step (addCandidates,
\* reject / accept / select, setOutput, setReasoning) changes the queued
\* event, in every capture mode.
C32_FinalEventImmutable ==
    [][\A i \in 1..Len(q), j \in 1..Len(q') :
          (q[i].id = q'[j].id /\ q[i].body.status # "running")
              => q'[j].body = q[i].body]_vars

-----------------------------------------------------------------------------
(***************************************************************************)
(* Properties of the ingestion routes, checked under SpecServer            *)
(***************************************************************************)

\* the step ids that have rows in table tbl of d
StepIdsIn(d, tbl) == {StepIdOf(tbl, row) : row \in d[tbl]}

\* no step row without its metrics row, no metrics, candidate or outcome row
\* without its step row
StoreConsistent(d) ==
    /\ StepIdsIn(d, "steps") = StepIdsIn(d, "metrics")
    /\ StepIdsIn(d, "cands") \subseteq StepIdsIn(d, "steps")
    /\ StepIdsIn(d, "outs") \subseteq StepIdsIn(d, "steps")

\* C8: when the ingest of a step event ends, the store holds all of the
\* event's writes or none of them; so at every state a step row has its
\* metrics row and metrics, candidate and outcome rows have their step row.
C8_StepIngestAtomic ==
    /\ [] StoreConsistent(db)
    /\ [][\A r \in AllReqs :
              (txs[r].active /\ ~ txs'[r].active)
                  => (db' = db \/ db' = IngestStep(db, txs[r].ev))]_vars

\* an ingest failed on a candidate or outcome upsert, after the step and the
\* metrics upserts, and the store holds no row of the step
C8_FailedPartWay ==
    /\ lastReq.outcome = "failed"
    /\ lastReq.done >= 2
    /\ ~ \E r \in AllReqs : txs[r].active
    /\ \A tbl \in StepTables : lastReq.ev.stepId \notin StepIdsIn(db, tbl)

\* the columns of the unique indexes of StepCandidate and CandidateOutcome
CandKey(row) == <<row.stepId, row.candidateId, row.candidateType>>

OutcomeKey(row) == <<row.stepId, row.candidateId, row.candidateType, row.outcome>>

\* no two rows of the table agree on the columns of its unique index
UniqueCandidates(table) ==
    \A r1, r2 \in table : CandKey(r1) = CandKey(r2) => r1 = r2

UniqueOutcomes(table) ==
    \A r1, r2 \in table : OutcomeKey(r1) = OutcomeKey(r2) => r1 = r2

\* C9: for every step event e and the store of every reachable state,
\* ingesting e twice gives the store that ingesting e once gives, which has
\* one step row and one metrics row of e.stepId (when e's run exists) and no
\* two candidate or outcome rows with the same composite key.
C9_StepIngestIdempotent ==
    \A e \in StepEventInputs :
        LET once == PostStep(db, e)
            stored == once # db \/ e.stepId \in StepIdsIn(db, "steps")
        IN  /\ PostStep(once, e) = once
            /\ stored => Cardinality({row \in once.steps : row.id = e.stepId}) = 1
            /\ stored => Cardinality({row \in once.metrics : row.stepId = e.stepId}) = 1
            /\ UniqueCandidates(once.cands)
            /\ UniqueOutcomes(once.outs)

\* the same event, with candidates and outcomes, was ingested twice in a row
\* and the store has one step row
C9_IngestedTwice ==
    /\ lastReq.outcome = "ok"
    /\ lastReq.repeat
    /\ ~ \E r \in AllReqs : txs[r].active
    /\ Len(ListOf(lastReq.ev.candidates)) >= 2
    /\ Len(ListOf(lastReq.ev.outcomes)) >= 2
    /\ Cardinality(db.steps) = 1
    /\ Cardinality(db.cands) = 2

\* C27: a step row that is stored keeps its runId, name, type, startedAt and
\* parentStepId (every column but status, endedAt, durationMs, input, output,
\* reasoning, meta and capturePolicy) in every step, whatever step event is
\* delivered for its id.
C27_StepCreationFieldsFixed ==
    [][\A row \in db.steps :
          \E new \in db'.steps :
              /\ new.id = row.id
              /\ new.runId = row.runId
              /\ new.name = row.name
              /\ new.type = row.type
              /\ new.startedAt = row.startedAt
              /\ new.parentStepId = row.parentStepId]_vars

\* the largest element of a non-empty set of numbers
Largest(S) == CHOOSE x \in S : \A y \in S : y <= x

\* C29: the store holds at most one candidate row per (stepId, candidateType,
\* candidateId) and at most one outcome row per (stepId, candidateType,
\* candidateId, outcome); after a delivery, each candidate and outcome of the
\* event has its row, which carries the rank (the reasonCode) that the event
\* gave last for that key, if it gave one.
C29_OneRowPerKey ==
    /\ \A r1, r2 \in db.cands : CandKey(r1) = CandKey(r2) => r1 = r2
    /\ \A r1, r2 \in db.outs : OutcomeKey(r1) = OutcomeKey(r2) => r1 = r2
    /\ lastReq.outcome = "ok" =>
          LET ev == lastReq.ev
              cs == ListOf(ev.candidates)
              os == ListOf(ev.outcomes)
          IN  /\ \A k \in 1..Len(cs) :
                     LET ranked == {j \in 1..Len(cs) :
                                       /\ cs[j].candidateId = cs[k].candidateId
                                       /\ cs[j].candidateType = cs[k].candidateType
                                       /\ cs[j].rank # None}
                     IN  \E row \in db.cands :
                             /\ row.stepId = ev.stepId
                             /\ row.candidateId = cs[k].candidateId
                             /\ row.candidateType = cs[k].candidateType
                             /\ ranked # {} => row.rank = cs[Largest(ranked)].rank
              /\ \A k \in 1..Len(os) :
                     LET coded == {j \in 1..Len(os) :
                                      /\ os[j].candidateId = os[k].candidateId
                                      /\ os[j].candidateType = os[k].candidateType
                                      /\ os[j].outcome = os[k].outcome
                                      /\ os[j].reasonCode # None}
                     IN  \E row \in db.outs :
                             /\ row.stepId = ev.stepId
                             /\ row.candidateId = os[k].candidateId
                             /\ row.candidateType = os[k].candidateType
                             /\ row.outcome = os[k].outcome
                             /\ coded # {} => row.reasonCode = os[Largest(coded)].reasonCode

\* an event with the same candidate twice and two rejections of it was
\* delivered after another event of the step: one candidate row, one outcome
\* row
C29_SameIdentityTwice ==
    /\ lastReq.outcome = "ok"
    /\ accepted >= 2
    /\ Len(ListOf(lastReq.ev.candidates)) = 2
    /\ lastReq.ev.candidates[1][1].candidateId = lastReq.ev.candidates[1][2].candidateId
    /\ lastReq.ev.candidates[1][1].rank # lastReq.ev.candidates[1][2].rank
    /\ Len(ListOf(lastReq.ev.outcomes)) = 2
    /\ Cardinality({row \in db.cands : row.stepId = "s1"}) = 1
    /\ Cardinality({row \in db.outs : row.stepId = "s1"}) = 1

\* C30: after a delivery, the row of the event's step has the status,
\* endedAt, durationMs, input, output and reasoning that the event carries
\* (nothing, where the event carries nothing), its meta and capturePolicy, and
\* the metrics row has the event's metrics and histogram.
C30_LastDeliveryWins ==
    lastReq.outcome = "ok" =>
        LET ev == lastReq.ev
        IN  /\ \E row \in db.steps :
                   /\ row.id = ev.stepId
                   /\ row.status = ev.status
                   /\ row.endedAt = ev.endedAt
                   /\ row.durationMs = ev.durationMs
                   /\ row.input = ev.input
                   /\ row.output = ev.output
                   /\ row.reasoning = ev.reasoning
                   /\ ev.meta # None => row.meta = ev.meta[1]
                   /\ ev.capturePolicy # None => row.capturePolicy = ev.capturePolicy[1]
            /\ \E row \in db.metrics :
                   /\ row.stepId = ev.stepId
                   /\ row.candidatesIn = ev.metrics.candidatesIn
                   /\ row.candidatesCaptured = ev.metrics.candidatesCaptured
                   /\ row.acceptedCount = ev.metrics.acceptedCount
                   /\ row.rejectedCount = ev.metrics.rejectedCount
                   /\ row.selectedCount = ev.metrics.selectedCount
                   /\ row.rejectionRate = ev.metrics.rejectionRate
                   /\ row.meta.rejectionHistogram
                          = Nullish(ev.rejectionHistogram, EmptyHistogram)

TerminalStatus == {"success", "error"}

\* C10: a stored run or step whose status is success or error never has its
\* status set back to running by a later delivery.
C10_TerminalNeverReverts ==
    [][\A tbl \in {"runs", "steps"} :
           \A old \in db[tbl], new \in db'[tbl] :
               (old.id = new.id /\ old.status \in TerminalStatus)
                   => new.status # "running"]_vars

\* C35: stored metrics agree with stored rows: after any sequence of
\* deliveries the number of StepCandidate rows stored for a step equals the
\* candidatesCaptured of its StepMetrics row.
C35_MetricsAgreeWithRows ==
    \A m \in db.metrics :
        Cardinality({row \in db.cands : row.stepId = m.stepId}) = m.candidatesCaptured

\* C36: every Run row stored for a run started through the SDK has the
\* pipeline, pipelineVersion, input and startedAt given at startRun: a run
\* end event never creates the Run row.
C36_RunRowFromStartRun ==
    \A row \in db.runs :
        /\ row.pipeline = RunStartBody.pipeline
        /\ row.pipelineVersion = RunStartBody.pipelineVersion
        /\ row.input = RunStartBody.input
        /\ row.startedAt = RunStartBody.startedAt

-----------------------------------------------------------------------------
(***************************************************************************)
(* Properties of concurrent requests, checked under SpecConcurrent         *)
(***************************************************************************)

\* C31: two concurrent ingestion requests for the same step id do not
\* interleave partial writes: every request that ends takes the committed
\* store to the store that ingesting its whole event into the committed
\* store gives (so the store after both is that of the two ingests one after
\* the other, in the order of their commits), and a request that fails
\* leaves the store as it was.
C31_ConcurrentIngestsSerial ==
    [][\A r \in AllReqs :
          (txs[r].active /\ ~ txs'[r].active) =>
              (IF lastReq'.outcome = "ok"
               THEN db' = IngestStep(db, txs[r].ev)
               ELSE db' = db)]_vars

\* request 1 has written the step row and the metrics row of a step and has
\* not ended, request 2 for another event of the same step has begun
C31_SecondWaitsForFirst ==
    /\ txs[1].active /\ txs[1].done > 1
    /\ txs[2].active /\ txs[2].done = 0
    /\ txs[1].ev.stepId = txs[2].ev.stepId
    /\ txs[1].ev # txs[2].ev

=============================================================================
